---- MODULE Spec2Model ----
(***************************************************************************)
(* A model of dadjokes (src/src/main.rs): a loop that asks whether the     *)
(* hackerspace is open, fetches the newest reddit posts, takes the one     *)
(* with the highest score, and - unless its id is in the list of used ids  *)
(* - records the id, rewrites the id file, has the text synthesized,       *)
(* plays it and paints it on the terminal.                                 *)
(*                                                                         *)
(* Strings that the program takes apart (identifiers, the id file) are     *)
(* sequences of characters; a text that is only measured (title, selftext) *)
(* is its length in bytes.                                                 *)
(***************************************************************************)
EXTENDS Integers, Sequences, FiniteSets, TLC

\* ------------------------------------------------------------------ bounds
NumIds == 4         \* how many of IdList's identifiers reddit may send
MaxScore == 1       \* scores are 0..MaxScore
MaxPosts == 2       \* posts in one listing
MaxUsed == 2        \* an iteration starts only while used_jokes is shorter
MaxVoices == 1      \* voices in the catalog
MaxLineLen == 1     \* bytes in every title and every line of selftext
MaxLines == 1       \* lines in a selftext
MaxWidth == 1       \* terminal columns
MaxHeight == 2      \* terminal rows

\* -------------------------------------------------------------- characters
LF == "LF"          \* the byte 0x0A
CR == "CR"          \* the byte 0x0D

\* The identifiers the listing may carry, as character sequences: JSON
\* strings, so empty ones and ones with line breaks are among them.
IdList ==
    << <<"a">>, <<"b">>, <<>>, <<"a", LF, "b">>, <<"a", CR>>, <<"c">> >>

Ids == { IdList[i] : i \in 1..(IF NumIds < Len(IdList) THEN NumIds ELSE Len(IdList)) }

Range(s) == { s[i] : i \in 1..Len(s) }

\* The sequences over S of length lo..hi.
SeqsOf(S, lo, hi) == UNION { [1..n -> S] : n \in lo..hi }

\* ---------------------------------------------------------- the id file
\* The file USED_IDS_FILE names: whether it exists, and its bytes.
NoFile == [exists |-> FALSE, bytes |-> <<>>]
FileOf(bytes) == [exists |-> TRUE, bytes |-> bytes]

\* writeln!(&mut output, "{}", id)
WriteLn(id) == id \o <<LF>>

\* for id in used_jokes { writeln!(..) }: the bytes of a complete rewrite
RECURSIVE FileBytes(_)
FileBytes(ids) ==
    IF ids = <<>> THEN <<>> ELSE WriteLn(Head(ids)) \o FileBytes(Tail(ids))

\* BufRead::lines on one line: the LF is dropped, and a CR right before it
StripCR(line) ==
    IF line # <<>> /\ line[Len(line)] = CR THEN SubSeq(line, 1, Len(line) - 1)
    ELSE line

\* BufReader::new(file).lines(): cur is the line read so far. The bytes after
\* the last LF are a line too, unless there are none.
RECURSIVE ReadLines(_, _)
ReadLines(bytes, cur) ==
    IF bytes = <<>> THEN (IF cur = <<>> THEN <<>> ELSE <<cur>>)
    ELSE IF Head(bytes) = LF THEN <<StripCR(cur)>> \o ReadLines(Tail(bytes), <<>>)
    ELSE ReadLines(Tail(bytes), Append(cur, Head(bytes)))

\* .filter(|l| !l.is_empty())
RECURSIVE NonEmpty(_)
NonEmpty(lines) ==
    IF lines = <<>> THEN <<>>
    ELSE IF Head(lines) = <<>> THEN NonEmpty(Tail(lines))
    ELSE <<Head(lines)>> \o NonEmpty(Tail(lines))

\* load_used_ids on a file that opens: Ok(lines)
load_used_ids(bytes) == NonEmpty(ReadLines(bytes, <<>>))

\* load_used_ids().unwrap_or_default(): openOk is whether File::open succeeds
\* (it fails on a missing file, and may fail on an existing one).
LoadOrDefault(f, openOk) ==
    IF ~f.exists \/ ~openOk THEN <<>> ELSE load_used_ids(f.bytes)

\* Faulty variants of contains: the test never finds the id; the test is
\* inverted.
ContainsNever(used, id) == FALSE
ContainsInverted(used, id) == ~\E i \in 1..Len(used) : used[i] = id

\* used_jokes.contains(&highest.id)
Contains(used, id) == \E i \in 1..Len(used) : used[i] = id

\* Faulty variant of push: the id is put in front.
PushFront(used, id) == <<id>> \o used

\* used_jokes.push(highest.id.clone())
Push(used, id) == Append(used, id)

\* ------------------------------------------------------------ space state
\* serde_json::Value, as far as the status body needs it: the kind of the
\* value and, for a string, its characters (for the others their JSON text).
Values ==
    { [kind |-> "null", text |-> "null"],
      [kind |-> "bool", text |-> "true"],
      [kind |-> "number", text |-> "1"],
      [kind |-> "array", text |-> "[\"open\"]"],
      [kind |-> "object", text |-> "{\"state\":\"open\"}"],
      [kind |-> "string", text |-> "open"],
      [kind |-> "string", text |-> "closed"],
      [kind |-> "string", text |-> "Open"],
      [kind |-> "string", text |-> "open "],
      [kind |-> "string", text |-> ""] }

Keys == {"state", "State"}

\* A JSON object is a function from its keys to values.
Objects == UNION { [K -> Values] : K \in SUBSET Keys }

\* The bodies response.json() parses: an object, or a value of another kind.
Bodies ==
    { [kind |-> "object", fields |-> o] : o \in Objects }
        \cup { [kind |-> "other", value |-> v] : v \in { w \in Values : w.kind # "object" } }

\* What the status request gives: no response (reqwest::get fails), a body
\* that is not JSON (response.json() fails), or a body.
Responses == Bodies \cup { [kind |-> "failed"], [kind |-> "malformed"] }

\* Value::get("state"): None unless the value is an object with that key
Get(body, key) ==
    IF body.kind = "object" /\ key \in DOMAIN body.fields
    THEN <<body.fields[key]>> ELSE <<>>

\* Faulty variant of space_is_open: any string state counts as open.
space_is_open_any_string(resp) ==
    IF resp.kind \in {"failed", "malformed"} THEN "err"
    ELSE LET state == Get(resp, "state")
         IN  IF state # <<>> /\ state[1].kind = "string" THEN "open" ELSE "closed"

\* space_is_open: err for Err(_), open for Ok(true), closed for Ok(false)
space_is_open(resp) ==
    IF resp.kind \in {"failed", "malformed"} THEN "err"
    ELSE LET state == Get(resp, "state")
         IN  IF state # <<>> /\ state[1].kind = "string"
             THEN (IF state[1].text = "open" THEN "open" ELSE "closed")
             ELSE "closed"

\* ------------------------------------------------------------ reddit posts
Scores == 0..MaxScore

\* The texts the listing carries: a title is its byte length, a selftext the
\* byte lengths of the pieces selftext.split('\n') yields (at least one).
\* Whether a text fits the terminal is decided by the terminal's width.
Titles == {MaxLineLen}
Selftexts == {[i \in 1..MaxLines |-> MaxLineLen]}

\* struct RedditPost
RedditPost == [id : Ids, title : Titles, selftext : Selftexts, score : Scores]

Listings == SeqsOf(RedditPost, 0, MaxPosts)

\* posts.iter().max_by_key(|p| p.score): the index of the post max_by_key
\* returns, 0 for None. Iterator::max_by_key folds from the left and keeps
\* the later of two elements whose keys compare equal.
RECURSIVE MaxFold(_, _, _)
MaxFold(ps, best, i) ==
    IF i > Len(ps) THEN best
    ELSE MaxFold(ps, IF ps[i].score >= ps[best].score THEN i ELSE best, i + 1)

\* Faulty variants of max_by_key: the earlier of two equal keys is kept (a
\* fold with >); the smallest key is taken (min_by_key).
RECURSIVE MaxFoldFirst(_, _, _)
MaxFoldFirst(ps, best, i) ==
    IF i > Len(ps) THEN best
    ELSE MaxFoldFirst(ps, IF ps[i].score > ps[best].score THEN i ELSE best, i + 1)

max_by_key_first(ps) == IF ps = <<>> THEN 0 ELSE MaxFoldFirst(ps, 1, 2)

RECURSIVE MinFold(_, _, _)
MinFold(ps, best, i) ==
    IF i > Len(ps) THEN best
    ELSE MinFold(ps, IF ps[i].score < ps[best].score THEN i ELSE best, i + 1)

min_by_key(ps) == IF ps = <<>> THEN 0 ELSE MinFold(ps, 1, 2)

max_by_key(ps) == IF ps = <<>> THEN 0 ELSE MaxFold(ps, 1, 2)

\* ---------------------------------------------------------------- results
\* How run (or main) ends: Ok(()), an Err with its context, or a panic.
Ok == [kind |-> "ok", msg |-> ""]
Err(msg) == [kind |-> "err", msg |-> msg]
Panic(msg) == [kind |-> "panic", msg |-> msg]
NoResult == [kind |-> "none", msg |-> ""]

\* ----------------------------------------------------------------- render
U16 == 65536        \* width, height, x and y are u16

\* a - b in u16: with overflow checks (a debug build) a result below 0
\* panics, without them (a release build) it wraps.
SubU16(a, b, checks) ==
    IF a >= b THEN <<"ok", a - b>>
    ELSE IF checks THEN <<"panic", 0>> ELSE <<"ok", a - b + U16>>

AddU16(a, b, checks) ==
    IF a + b < U16 THEN <<"ok", a + b>>
    ELSE IF checks THEN <<"panic", 0>> ELSE <<"ok", a + b - U16>>

PanicOverflow == Panic("attempt to subtract with overflow")
PanicAddOverflow == Panic("attempt to add with overflow")

\* The terminal calls of the painting, in order: 1 is clear, 2 and 3 are the
\* goto and the write of the title, 2i+2 and 2i+3 those of line i of the
\* selftext. fail is the call that returns an error (0: none does).
\* RenderLines is the loop of lines 133..138 from line i on, y being the row.
RECURSIVE RenderLines(_, _, _, _, _, _, _)
RenderLines(lines, i, width, y, checks, fail, at) ==
    IF i > Len(lines) THEN [result |-> Ok, at |-> at]
    ELSE LET d == SubU16(width, lines[i] % U16, checks)
             x == d[2] \div 2
             y1 == AddU16(y, 1, checks)
         IN  IF d[1] = "panic" THEN [result |-> PanicOverflow, at |-> at]
             ELSE IF fail = 2 * i + 2 THEN [result |-> Err("Could not move cursor"), at |-> at]
             ELSE IF fail = 2 * i + 3 THEN [result |-> Err("Could not write selftext"), at |-> at]
             ELSE IF y1[1] = "panic"
                  THEN [result |-> PanicAddOverflow, at |-> Append(at, <<x, y>>)]
             ELSE RenderLines(lines, i + 1, width, y1[2], checks, fail, Append(at, <<x, y>>))

\* Lines 116..139 of run: the result (Ok, an error's context, or a panic) and
\* the <<x, y>> each text was written at, the title's first.
Render(post, width, height, checks, fail) ==
    LET dx == SubU16(width, post.title % U16, checks)
        x == dx[2] \div 2
        dy == SubU16(height \div 2, 1, checks)
        y == dy[2]
        y2 == AddU16(height \div 2, 1, checks)
    IN  IF fail = 1 THEN [result |-> Err("Could not clear screen"), at |-> <<>>]
        ELSE IF dx[1] = "panic" \/ dy[1] = "panic" THEN [result |-> PanicOverflow, at |-> <<>>]
        ELSE IF fail = 2 THEN [result |-> Err("Could not move cursor"), at |-> <<>>]
        ELSE IF fail = 3 THEN [result |-> Err("Could not write title"), at |-> <<>>]
        ELSE IF y2[1] = "panic" THEN [result |-> PanicAddOverflow, at |-> << <<x, y>> >>]
        ELSE RenderLines(post.selftext, 1, width, y2[2], checks, fail, << <<x, y>> >>)

\* ------------------------------------------------------------------ state
ConfigVars ==
    {"SPACESTATE_URL", "REDDIT_URL", "USED_IDS_FILE",
     "AWS_POLLY_ACCESS_KEY", "AWS_POLLY_SECRET_ACCESS_KEY"}

\* rusoto_polly::Voice: id is an Option, here a sequence of at most one name
Voice == [id : {<<>>, <<"Joanna">>}]

VARIABLES
    env,            \* the configuration variables that are set (after dotenv)
    file,           \* the file USED_IDS_FILE names
    pc,             \* boot, loop (before an iteration), sleep, aborted (main
                    \* ended before the loop), panicked (it ended inside it)
    used_jokes,     \* main's broadcasted_dadjokes
    voices,         \* the voice catalog main fetched
    status,         \* what the last status check gave: err, closed, open
    posts,          \* the posts the last iteration fetched
    highest,        \* the index in posts of the post it selected, 0: none
    events,         \* what run completed in the last iteration, in order
    result,         \* how the last iteration (or main) ended
    logged,         \* whether the loop logged an error for the last iteration
    loaded,         \* history: used_jokes as main loaded it
    pushed,         \* history: the ids this process pushed, in order
    synthesized,    \* history: the ids this process asked speech for
    response,       \* the JSON body a request received (SpecOpen, SpecListing)
    fetched,        \* the last iteration's request for posts: none, err, ok
    slept,          \* the seconds the loop slept since the last iteration
    playing,        \* the sounds play_raw started that have not ended
    kept,           \* history: the ids the file held when main loaded it or
                    \* after a rewrite of this process that succeeded
    term            \* the terminal and what was painted on it (SpecRender only)

vars ==
    <<env, file, pc, used_jokes, voices, status, posts, highest, events, result,
      logged, loaded, pushed, synthesized, response, fetched, slept, playing,
      kept, term>>

NoBody == [kind |-> "none"]
NoTerm == [width |-> 0, height |-> 0, checks |-> FALSE, fail |-> 0, at |-> <<>>]

\* What a process has before main runs.
Fresh ==
    /\ pc = "boot"
    /\ used_jokes = <<>>
    /\ voices = <<>>
    /\ status = "none"
    /\ posts = <<>>
    /\ highest = 0
    /\ events = <<>>
    /\ result = NoResult
    /\ logged = FALSE
    /\ loaded = <<>>
    /\ pushed = <<>>
    /\ synthesized = <<>>
    /\ fetched = "none"
    /\ slept = 0
    /\ playing = 0
    /\ kept = {}
    /\ term = NoTerm

\* A first start: any configuration, no id file yet.
Init ==
    /\ env \in SUBSET ConfigVars
    /\ file = NoFile
    /\ response = NoBody
    /\ Fresh

\* ------------------------------------------------------------------- main
\* std::env::var(..).expect("Missing environment variable ..") of lazy_static
\* (a panic, kept apart as kind config; msg is the variable)
Missing(var) == [kind |-> "config", msg |-> var]
IsPanic(res) == res.kind \in {"panic", "config"}

\* The steps of main before the loop that can end the process, in order.
\* A step of kind config reads a configuration variable for the first time,
\* the others are calls that can fail. Lines 27, 32, 33..35, 37 (load_used_ids reads USED_IDS_FILE), 39,
\* 41, 42, 47..53, 54, 56.
StartupSteps ==
    << Panic("Could not read .env, have you copied .env.example?"),
       Panic("Could not hide cursor"),
       Panic("Could not clear terminal"),
       Missing("USED_IDS_FILE"),
       Panic("Could not make http client"),
       Missing("AWS_POLLY_ACCESS_KEY"),
       Missing("AWS_POLLY_SECRET_ACCESS_KEY"),
       Panic("Could not describe voices"),
       Panic("called Option::unwrap() on a None value (voices)"),
       Panic("Could not find default audio device") >>

\* Whether step i ends the process: a configuration variable that is not set,
\* or the call the environment lets fail (failing, 0 for none).
StepFails(i, failing) ==
    IF StartupSteps[i].kind = "config" THEN StartupSteps[i].msg \notin env
    ELSE i = failing

\* The first step of main that fails, 0 when none does.
FirstFailure(failing) ==
    IF \E i \in 1..Len(StartupSteps) : StepFails(i, failing)
    THEN CHOOSE i \in 1..Len(StartupSteps) :
            /\ StepFails(i, failing)
            /\ \A j \in 1..(i - 1) : ~StepFails(j, failing)
    ELSE 0

\* The ids a reader finds in the file, one a line.
Held(f) == IF f.exists THEN Range(load_used_ids(f.bytes)) ELSE {}

\* main, lines 26..57: up to the loop. failing: the call that fails, openOk:
\* whether File::open succeeds on an existing file, vs: the voices received.
Main ==
    /\ pc = "boot"
    /\ \E failing \in 0..Len(StartupSteps), openOk \in BOOLEAN,
          vs \in SeqsOf(Voice, 0, MaxVoices) :
          LET f == FirstFailure(failing)
              ids == LoadOrDefault(file, openOk)
          IN  /\ (IF failing = 0 THEN TRUE ELSE StartupSteps[failing].kind # "config")
              /\ IF f # 0
                 THEN /\ pc' = "aborted"
                      /\ result' = StartupSteps[f]
                      /\ UNCHANGED <<used_jokes, loaded, voices, kept>>
                 ELSE /\ pc' = "loop"
                      /\ used_jokes' = ids
                      /\ loaded' = ids
                      /\ voices' = vs
                      /\ kept' = Held(file)
                      /\ UNCHANGED result
    /\ UNCHANGED <<env, file, status, posts, highest, events, logged, pushed,
                   synthesized, response, fetched, slept, playing, term>>

\* The process is started again (after it ended, or after it was stopped):
\* only the environment and the id file outlive it.
Restart ==
    /\ pc # "boot"
    /\ pc' = "boot"
    /\ used_jokes' = <<>>
    /\ voices' = <<>>
    /\ status' = "none"
    /\ posts' = <<>>
    /\ highest' = 0
    /\ events' = <<>>
    /\ result' = NoResult
    /\ logged' = FALSE
    /\ loaded' = <<>>
    /\ pushed' = <<>>
    /\ synthesized' = <<>>
    /\ fetched' = "none"
    /\ slept' = 0
    /\ playing' = 0
    /\ kept' = {}
    /\ UNCHANGED <<env, file, response, term>>

\* -------------------------------------------------------------------- run
\* Faulty variant of Finish: play_raw returns when the sound has ended.
FinishPlaybackBlocks(res, st, fe, ps, hi, ev, used, f, asked) ==
    /\ result' = res
    /\ status' = st
    /\ fetched' = fe
    /\ posts' = ps
    /\ highest' = hi
    /\ events' = ev
    /\ used_jokes' = used
    /\ file' = f
    /\ pushed' = IF ev # <<>> THEN Append(pushed, ps[hi].id) ELSE pushed
    /\ synthesized' = IF asked THEN Append(synthesized, ps[hi].id) ELSE synthesized
    /\ logged' = (res.kind = "err")
    /\ pc' = IF IsPanic(res) THEN "panicked" ELSE "sleep"
    /\ slept' = 0
    /\ playing' = IF IsPanic(res) THEN 0 ELSE playing
    /\ kept' = IF "persist" \in Range(ev) THEN kept \cup Held(f) ELSE kept

\* Faulty variant of Finish: after an error the loop starts over at once.
FinishErrorSkipsSleep(res, st, fe, ps, hi, ev, used, f, asked) ==
    /\ result' = res
    /\ status' = st
    /\ fetched' = fe
    /\ posts' = ps
    /\ highest' = hi
    /\ events' = ev
    /\ used_jokes' = used
    /\ file' = f
    /\ pushed' = IF ev # <<>> THEN Append(pushed, ps[hi].id) ELSE pushed
    /\ synthesized' = IF asked THEN Append(synthesized, ps[hi].id) ELSE synthesized
    /\ logged' = (res.kind = "err")
    /\ pc' = IF IsPanic(res) THEN "panicked"
             ELSE IF res.kind = "err" THEN "loop" ELSE "sleep"
    /\ slept' = 0
    /\ playing' = IF IsPanic(res) THEN 0
                  ELSE IF "play" \in Range(ev) THEN playing + 1 ELSE playing
    /\ kept' = IF "persist" \in Range(ev) THEN kept \cup Held(f) ELSE kept

\* The end of one pass through the body of the loop (lines 60..70): run has
\* returned res, or panicked with it. An Err is logged (line 69); a panic
\* ends the process.
Finish(res, st, fe, ps, hi, ev, used, f, asked) ==
    /\ result' = res
    /\ status' = st
    /\ fetched' = fe
    /\ posts' = ps
    /\ highest' = hi
    /\ events' = ev
    /\ used_jokes' = used
    /\ file' = f
    /\ pushed' = IF ev # <<>> THEN Append(pushed, ps[hi].id) ELSE pushed
    /\ synthesized' = IF asked THEN Append(synthesized, ps[hi].id) ELSE synthesized
    /\ logged' = (res.kind = "err")
    /\ pc' = IF IsPanic(res) THEN "panicked" ELSE "sleep"
    /\ slept' = 0
    /\ playing' = IF IsPanic(res) THEN 0
                  ELSE IF "play" \in Range(ev) THEN playing + 1 ELSE playing
    /\ kept' = IF "persist" \in Range(ev) THEN kept \cup Held(f) ELSE kept

\* Lines 116..141: the painting, after play_raw. The terminal has any size;
\* the build has overflow checks or not; any one terminal call may fail.
PaintResults(post) ==
    { Render(post, width, height, checks, fail).result :
        width \in 0..MaxWidth, height \in 0..MaxHeight, checks \in BOOLEAN,
        fail \in 0..(3 + 2 * MaxLines) }

Paint(ps, hi, used, f) ==
    \E r \in PaintResults(ps[hi]) :
        LET done == <<"push", "persist", "synthesize", "play">>
        IN  Finish(r, "open", "ok", ps, hi, IF r = Ok THEN Append(done, "paint") ELSE done,
                   used, f, TRUE)

\* Lines 103..114: the speech. voice.id.unwrap() is evaluated while the
\* request is built; the service answers with an error, without a stream or
\* with one; the decoder accepts the stream or not.
Speak(voice, ps, hi, used, f) ==
    LET saved == <<"push", "persist">>
    IN  IF voice.id = <<>>
        THEN Finish(Panic("called Option::unwrap() on a None value (voice.id)"),
                    "open", "ok", ps, hi, saved, used, f, FALSE)
        ELSE \/ Finish(Err("Could not synthesize speech"), "open", "ok", ps, hi, saved, used, f, TRUE)
             \/ Finish(Panic("called Option::unwrap() on a None value (audio_stream)"),
                       "open", "ok", ps, hi, saved, used, f, TRUE)
             \/ Finish(Err("Could not create decoder"), "open", "ok", ps, hi,
                       Append(saved, "synthesize"), used, f, TRUE)
             \/ Paint(ps, hi, used, f)

\* Faulty variant of Announce: the id is pushed only once the file is
\* written.
AnnouncePushLast(voice, ps, hi) ==
    LET used == Push(used_jokes, ps[hi].id)
        bytes == FileBytes(used)
    IN  \/ Finish(Err("Could not open USED_IDS_FILE for writing"), "open", "ok", ps, hi,
                  <<>>, used_jokes, file, FALSE)
        \/ \E n \in 0..(Len(bytes) - 1) :
              Finish(Err("Could not save USER_IDS_FILE"), "open", "ok", ps, hi,
                     <<>>, used_jokes, FileOf(SubSeq(bytes, 1, n)), FALSE)
        \/ Speak(voice, ps, hi, used, FileOf(bytes))

\* Lines 95..101: the id is pushed, then the file is created (truncated) and
\* every id written. File::create may fail, and a write may fail after any
\* number of the bytes.
Announce(voice, ps, hi) ==
    LET used == Push(used_jokes, ps[hi].id)
        bytes == FileBytes(used)
    IN  \/ Finish(Err("Could not open USED_IDS_FILE for writing"), "open", "ok", ps, hi,
                  <<"push">>, used, file, FALSE)
        \/ \E n \in 0..(Len(bytes) - 1) :
              Finish(Err("Could not save USER_IDS_FILE"), "open", "ok", ps, hi,
                     <<"push">>, used, FileOf(SubSeq(bytes, 1, n)), FALSE)
        \/ Speak(voice, ps, hi, used, FileOf(bytes))

\* Faulty variant of Select: an empty listing is not an error.
SelectEmptyOk(voice, ps) ==
    LET hi == max_by_key(ps)
    IN  IF hi = 0
        THEN Finish(Ok, "open", "ok", ps, 0, <<>>, used_jokes, file, FALSE)
        ELSE IF Contains(used_jokes, ps[hi].id)
        THEN Finish(Ok, "open", "ok", ps, hi, <<>>, used_jokes, file, FALSE)
        ELSE Announce(voice, ps, hi)

\* Lines 87..94: the selection and the test against the used ids.
Select(voice, ps) ==
    LET hi == max_by_key(ps)
    IN  IF hi = 0
        THEN Finish(Err("Did not find a single post"), "open", "ok", ps, 0, <<>>,
                    used_jokes, file, FALSE)
        ELSE IF Contains(used_jokes, ps[hi].id)
        THEN Finish(Ok, "open", "ok", ps, hi, <<>>, used_jokes, file, FALSE)
        ELSE Announce(voice, ps, hi)

\* Line 86: load_newest_reddit_posts reads REDDIT_URL for the first time; the
\* request fails, or gives a listing.
Fetch(voice) ==
    IF "REDDIT_URL" \notin env
    THEN Finish(Missing("REDDIT_URL"), "open", "none", <<>>, 0, <<>>, used_jokes, file, FALSE)
    ELSE \/ Finish(Err("Could not load reddit posts"), "open", "err", <<>>, 0, <<>>,
                   used_jokes, file, FALSE)
         \/ \E ps \in Listings : Select(voice, ps)

\* Faulty variant of run: a closed space is an error.
run_closed_fails(voice) ==
    \E st \in { space_is_open(resp) : resp \in Responses } :
        IF st = "err"
        THEN Finish(Err("Could not get spacestate"), st, "none", <<>>, 0, <<>>, used_jokes, file, FALSE)
        ELSE IF st = "closed"
        THEN Finish(Err("Space is not open"), st, "none", <<>>, 0, <<>>, used_jokes, file, FALSE)
        ELSE Fetch(voice)

\* run, lines 74..142, with the voice main chose; lines 82..85 first.
run(voice) ==
    \E st \in { space_is_open(resp) : resp \in Responses } :
        IF st = "err"
        THEN Finish(Err("Could not get spacestate"), st, "none", <<>>, 0, <<>>, used_jokes, file, FALSE)
        ELSE IF st = "closed"
        THEN Finish(Ok, st, "none", <<>>, 0, <<>>, used_jokes, file, FALSE)
        ELSE Fetch(voice)

\* One pass through the body of the loop, lines 60..70. voices.choose(..) is
\* None on an empty catalog.
Iterate ==
    /\ pc = "loop"
    /\ Len(used_jokes) < MaxUsed
    /\ IF voices = <<>>
       THEN Finish(Panic("called Option::unwrap() on a None value (choose)"),
                   "none", "none", <<>>, 0, <<>>, used_jokes, file, FALSE)
       ELSE \E v \in 1..Len(voices) : run(voices[v])
    /\ UNCHANGED <<env, voices, loaded, response, term>>

SleepSecs == 30     \* Duration::from_secs(30)

\* Line 71: thread::sleep, after which the loop starts over; run's locals are
\* gone.
Sleep ==
    /\ pc = "sleep"
    /\ pc' = "loop"
    /\ status' = "none"
    /\ posts' = <<>>
    /\ highest' = 0
    /\ events' = <<>>
    /\ result' = NoResult
    /\ logged' = FALSE
    /\ fetched' = "none"
    /\ slept' = SleepSecs
    /\ UNCHANGED <<env, file, used_jokes, voices, loaded, pushed, synthesized,
                   response, playing, kept, term>>

\* Line 114: play_raw hands the decoded sound to the audio device and
\* returns; the device's thread plays it and owns it alone. A sound ends
\* at any time while the process lives.
PlaybackEnds ==
    /\ pc \in {"loop", "sleep"}
    /\ playing > 0
    /\ playing' = playing - 1
    /\ UNCHANGED <<env, file, pc, used_jokes, voices, status, posts, highest,
                   events, result, logged, loaded, pushed, synthesized, response,
                   fetched, slept, kept, term>>

Next == Main \/ Iterate \/ Sleep \/ Restart \/ PlaybackEnds

Spec == Init /\ [][Next]_vars

\* ------------------------------------------------- space_is_open on its own
\* Every response, and space_is_open applied to it.
InitOpen ==
    /\ env = ConfigVars
    /\ file = NoFile
    /\ response \in Responses
    /\ Fresh

AskSpaceState ==
    /\ pc = "boot"
    /\ pc' = "asked"
    /\ status' = space_is_open(response)
    /\ UNCHANGED <<env, file, used_jokes, voices, posts, highest, events, result,
                   logged, loaded, pushed, synthesized, response, fetched,
                   slept, playing, kept, term>>

SpecOpen == InitOpen /\ [][AskSpaceState]_vars

\* ------------------------------------------------- the id store on its own
MaxStored == 3      \* ids appended to the store

\* An empty store.
InitStore ==
    /\ env = ConfigVars
    /\ file = NoFile
    /\ response = NoBody
    /\ Fresh

\* Lines 96..101 with every write succeeding, for an id not yet in the list.
AppendAndPersist ==
    /\ pc \in {"boot", "stored", "read"}
    /\ Len(used_jokes) < MaxStored
    /\ \E id \in Ids :
          /\ ~Contains(used_jokes, id)
          /\ used_jokes' = Push(used_jokes, id)
          /\ file' = FileOf(FileBytes(used_jokes'))
          /\ pushed' = Append(pushed, id)
    /\ pc' = "stored"
    /\ UNCHANGED <<env, voices, status, posts, highest, events, result, logged,
                   loaded, synthesized, response, fetched, slept, playing, kept,
                   term>>

\* load_used_ids() on the file as it is.
Load ==
    /\ pc = "stored"
    /\ pc' = "read"
    /\ loaded' = LoadOrDefault(file, TRUE)
    /\ UNCHANGED <<env, file, used_jokes, voices, status, posts, highest, events,
                   result, logged, pushed, synthesized, response, fetched, slept,
                   playing, kept, term>>

NextStore == AppendAndPersist \/ Load

SpecStore == InitStore /\ [][NextStore]_vars

\* ------------------------------------ load_newest_reddit_posts on its own
MaxChildren == 2    \* children of a listing

\* serde_json's Number holds a PosInt (u64), a NegInt (i64, below zero) or a
\* Float (f64). over: a PosInt above i64::MAX; val: the number, for a Float
\* the integer part of a number with a fraction, for a PosInt that is over
\* what it exceeds i64::MAX by.
Numbers ==
    [n : {"PosInt"}, over : {FALSE}, val : {0, MaxScore}]
        \cup { [n |-> "PosInt", over |-> TRUE, val |-> MaxScore],
               [n |-> "NegInt", over |-> FALSE, val |-> -1],
               [n |-> "Float", over |-> FALSE, val |-> MaxScore] }

NoNumber == [n |-> "PosInt", over |-> FALSE, val |-> 0]

\* What child.pointer("/data/<field>") gives: None (kind missing: the child
\* has no data object, or data has no such field), a string, a number, or a
\* value of another kind (null).
Field(strings) ==
    [kind : {"string"}, s : strings, num : {NoNumber}]
        \cup { [kind |-> k, s |-> CHOOSE x \in strings : TRUE, num |-> NoNumber] :
                 k \in {"missing", "null"} }

\* The children of a listing: every field is of the type a post needs or is
\* not, in every combination; two ids are enough to tell the children apart.
Child ==
    [ id : Field({IdList[1], IdList[2]}),
      title : { f \in Field(Titles) : f.kind = "string" }
                 \cup [kind : {"number"}, s : Titles, num : {NoNumber}],
      selftext : { f \in Field(Selftexts) : f.kind # "missing" },
      score : { f \in Field({"1"}) : f.kind = "missing" }
                 \cup [kind : {"number"}, s : {"1"}, num : Numbers] ]

\* What the request for the listing gives when it gives no list: no
\* response, a body that is not JSON, or a JSON value in which /data/children
\* is absent or is not an array.
NoListing ==
    { [kind |-> "failed"], [kind |-> "malformed"],
      [kind |-> "json", children |-> "absent", items |-> <<>>],
      [kind |-> "json", children |-> "object", items |-> <<>>] }

\* A JSON value in which /data/children is the array cs.
Listing(cs) == [kind |-> "json", children |-> "array", items |-> cs]

\* Faulty variant of as_i64: a Float is truncated (as with `as i64`).
as_i64_truncating(num) ==
    IF num.n = "PosInt" /\ num.over THEN <<>> ELSE <<num.val>>

\* Number::as_i64: Some for a NegInt and for a PosInt up to i64::MAX, None
\* for a larger PosInt and for every Float. An Option is a sequence of at
\* most one value.
as_i64(num) ==
    IF num.n = "NegInt" \/ (num.n = "PosInt" /\ ~num.over) THEN <<num.val>> ELSE <<>>

\* Option<i64>::unwrap_or_default
unwrap_or_default(opt) == IF opt = <<>> THEN 0 ELSE opt[1]

\* Faulty variant of Candidate: the score is not looked at.
CandidateAnyScore(child) ==
    /\ child.id.kind = "string"
    /\ child.title.kind = "string"
    /\ child.selftext.kind = "string"

\* The pattern of lines 166..171.
Candidate(child) ==
    /\ child.id.kind = "string"
    /\ child.title.kind = "string"
    /\ child.selftext.kind = "string"
    /\ child.score.kind = "number"

\* Lines 172..177.
ToPost(child) ==
    [id |-> child.id.s, title |-> child.title.s, selftext |-> child.selftext.s,
     score |-> unwrap_or_default(as_i64(child.score.num))]

\* The loop of lines 160..186 from child i on, res: the result so far.
RECURSIVE ParseChildren(_, _, _)
ParseChildren(cs, i, res) ==
    IF i > Len(cs) THEN res
    ELSE ParseChildren(cs, i + 1,
                       IF Candidate(cs[i]) THEN Append(res, ToPost(cs[i])) ELSE res)

\* load_newest_reddit_posts: whether it returned Ok, and the posts.
load_newest_reddit_posts(body) ==
    IF body.kind # "json" THEN [ok |-> FALSE, posts |-> <<>>]
    ELSE IF body.children = "array"
    THEN [ok |-> TRUE, posts |-> ParseChildren(body.items, 1, <<>>)]
    ELSE [ok |-> TRUE, posts |-> <<>>]

\* Every answer to the request for the listing.
InitListing ==
    /\ env = ConfigVars
    /\ file = NoFile
    /\ \/ response \in NoListing
       \/ \E n \in 0..MaxChildren : \E cs \in [1..n -> Child] : response = Listing(cs)
    /\ Fresh

\* Lines 86..90 on the answer: the posts are parsed and the highest selected.
FetchAndSelect ==
    /\ pc = "boot"
    /\ pc' = "selected"
    /\ LET r == load_newest_reddit_posts(response)
       IN  /\ fetched' = IF r.ok THEN "ok" ELSE "err"
           /\ posts' = r.posts
           /\ highest' = max_by_key(r.posts)
           /\ result' = IF ~r.ok THEN Err("Could not load reddit posts")
                        ELSE IF max_by_key(r.posts) = 0
                        THEN Err("Did not find a single post")
                        ELSE NoResult
    /\ UNCHANGED <<env, file, used_jokes, voices, status, events, logged, loaded,
                   pushed, synthesized, response, slept, playing, kept, term>>

SpecListing == InitListing /\ [][FetchAndSelect]_vars

\* ---------------------------------------------------- the painting on its own
\* The sizes terminal_size() reports and the byte lengths of the texts: the
\* small ones, the largest u16, and a text whose length does not fit a u16.
RenderWidths == 0..MaxWidth \cup {U16 - 1}
RenderHeights == 0..MaxHeight
RenderLens == 0..(MaxLineLen + 1) \cup {U16 + 1}

\* A post to paint on a terminal of any size, in a build with overflow
\* checks or without, with the terminal call that fails (0: none).
InitRender ==
    /\ env = ConfigVars
    /\ file = NoFile
    /\ response = NoBody
    /\ pc = "boot"
    /\ used_jokes = <<>>
    /\ voices = <<>>
    /\ status = "none"
    /\ \E title \in RenderLens, lines \in SeqsOf(RenderLens, 1, MaxLines) :
          posts = <<[id |-> IdList[1], title |-> title, selftext |-> lines, score |-> 0]>>
    /\ highest = 1
    /\ events = <<>>
    /\ result = NoResult
    /\ logged = FALSE
    /\ loaded = <<>>
    /\ pushed = <<>>
    /\ synthesized = <<>>
    /\ fetched = "none"
    /\ slept = 0
    /\ playing = 0
    /\ kept = {}
    /\ term \in [width : RenderWidths, height : RenderHeights, checks : BOOLEAN,
                 fail : 0..(3 + 2 * MaxLines), at : {<<>>}]

\* Lines 116..141 on that post and terminal.
PaintPost ==
    /\ pc = "boot"
    /\ pc' = "painted"
    /\ LET r == Render(posts[highest], term.width, term.height, term.checks, term.fail)
       IN  /\ result' = r.result
           /\ term' = [term EXCEPT !.at = r.at]
    /\ UNCHANGED <<env, file, used_jokes, voices, status, posts, highest, events,
                   logged, loaded, pushed, synthesized, response, fetched, slept,
                   playing, kept>>

SpecRender == InitRender /\ [][PaintPost]_vars

\* ----------------------------------------------------------------- claims
NoDup(s) == \A i, j \in 1..Len(s) : i # j => s[i] # s[j]
IsPrefix(a, b) == Len(a) <= Len(b) /\ SubSeq(b, 1, Len(a)) = a
Full == <<"push", "persist", "synthesize", "play", "paint">>

\* The post at index i has the largest score of ps.
IsMax(ps, i) == \A j \in 1..Len(ps) : ps[j].score <= ps[i].score

\* A step is a pass through the loop's body in which run selected a post.
Selects == pc = "loop" /\ status' = "open" /\ highest' > 0
SelectedId == posts'[highest'].id

\* C1: a post whose id is in used_jokes is never sent to the speech service
\* or played or painted: whenever an iteration asks for speech or presents a
\* post, the post's id was not in used_jokes before the iteration and was not
\* synthesized before in this process, and it is the one id that is added to
\* the synthesized ones.
C1_Dedup ==
    [][ (Selects /\ (synthesized' # synthesized
                      \/ Range(events') \cap {"synthesize", "play", "paint"} # {}))
        => /\ SelectedId \notin Range(used_jokes)
           /\ SelectedId \notin Range(synthesized)
           /\ synthesized' = Append(synthesized, SelectedId) ]_vars

\* An iteration met a post this process had synthesized before, and did nothing.
C1_Witness ==
    /\ pc = "sleep"
    /\ highest > 0
    /\ posts[highest].id \in Range(synthesized)
    /\ events = <<>>

\* C2 as stated: of the posts with the largest score, run selects the first.
C2_FirstOfTies ==
    posts # <<>> =>
        /\ highest > 0
        /\ IsMax(posts, highest)
        /\ \A j \in 1..(highest - 1) : ~IsMax(posts, j)

\* C2 as amended: of the posts with the largest score, run selects the last
\* in the fetched order.
C2_LastOfTies ==
    posts # <<>> =>
        /\ highest > 0
        /\ IsMax(posts, highest)
        /\ \A j \in (highest + 1)..Len(posts) : ~IsMax(posts, j)

\* Two posts tie for the largest score and the second one is selected.
C2_Witness ==
    /\ Len(posts) = 2
    /\ posts[1].score = posts[2].score
    /\ posts[1].id # posts[2].id
    /\ highest = 2

\* C3: when the scores of the fetched posts are pairwise distinct, run selects
\* the post with the largest score.
C3_MaxOfDistinct ==
    (posts # <<>> /\ \A i, j \in 1..Len(posts) : i # j => posts[i].score # posts[j].score)
        => /\ highest > 0
           /\ \A j \in 1..Len(posts) : j # highest => posts[j].score < posts[highest].score

\* Two posts with distinct scores, the larger one first, and it is selected.
C3_Witness ==
    /\ Len(posts) = 2
    /\ posts[1].score > posts[2].score
    /\ highest = 1

C5_RoundTrip == pc = "read" => loaded = pushed

\* C6 as stated: when run selects a post whose id is not in used_jokes, the
\* post is appended, persisted, synthesized and presented.
C6_Presented ==
    [][ (Selects /\ SelectedId \notin Range(used_jokes))
        => /\ events' = Full
           /\ used_jokes' = Append(used_jokes, SelectedId)
           /\ file' = FileOf(FileBytes(used_jokes'))
           /\ synthesized' = Append(synthesized, SelectedId) ]_vars

\* C6 as amended: when run selects a post whose id is not in used_jokes, that
\* id and no other is appended to used_jokes; persisting, synthesizing, playing
\* and painting follow in this order, each only after the ones before it
\* succeeded, and all of them exactly when run returns Ok; speech is asked for
\* this post only, and only after the file was rewritten completely.
C6_AnnounceInOrder ==
    [][ (Selects /\ SelectedId \notin Range(used_jokes))
        => /\ used_jokes' = Append(used_jokes, SelectedId)
           /\ pushed' = Append(pushed, SelectedId)
           /\ events' # <<>>
           /\ IsPrefix(events', Full)
           /\ ("persist" \in Range(events') => file' = FileOf(FileBytes(used_jokes')))
           /\ (synthesized' # synthesized
                 => /\ "persist" \in Range(events')
                    /\ synthesized' = Append(synthesized, SelectedId))
           /\ ("synthesize" \in Range(events') => synthesized' # synthesized)
           /\ (result' = Ok <=> events' = Full) ]_vars

\* The second of two posts was announced completely; the first, with another
\* id and a smaller score, was not touched.
C6_Witness ==
    /\ pc = "sleep"
    /\ Len(posts) = 2
    /\ highest = 2
    /\ posts[1].score < posts[2].score
    /\ posts[1].id # posts[2].id
    /\ events = Full
    /\ result = Ok
    /\ posts[1].id \notin Range(used_jokes)

\* C7: when run selects a post whose id is in used_jokes, it returns Ok, and
\* nothing is pushed, written, synthesized, played or painted: used_jokes and
\* the file stay as they are, whatever other posts were fetched.
C7_AlreadyTold ==
    [][ (Selects /\ SelectedId \in Range(used_jokes))
        => /\ result' = Ok
           /\ pc' = "sleep"
           /\ ~logged'
           /\ events' = <<>>
           /\ used_jokes' = used_jokes
           /\ file' = file
           /\ pushed' = pushed
           /\ synthesized' = synthesized ]_vars

\* The selected post was told before; a post with a smaller score and an id
\* never used was fetched with it, and nothing was done.
C7_Witness ==
    /\ pc = "sleep"
    /\ Len(posts) = 2
    /\ highest > 0
    /\ posts[highest].id \in Range(used_jokes)
    /\ \E j \in 1..Len(posts) :
          /\ posts[j].score < posts[highest].score
          /\ posts[j].id \notin Range(used_jokes)
    /\ events = <<>>
    /\ result = Ok

\* C8: whatever fails in run, the process goes on to the sleep, and a failure
\* is logged. Stated for a process whose configuration is complete and for the
\* passes through the loop's body in which run was called.
C8_LoopSurvives ==
    (env = ConfigVars /\ status # "none") =>
        /\ pc = "sleep"
        /\ (result.kind \notin {"ok", "none"} => logged)

\* C9: a configuration variable that is not set ends the process before the
\* loop, and never inside it.
C9_ConfigFatalAtStartup ==
    /\ (env # ConfigVars => pc \in {"boot", "aborted"})
    /\ (pc = "panicked" => result.kind # "config")

\* C10: space_is_open gives true exactly for a body that is an object whose
\* field state is the string open, and false, not an error, for every other
\* body that parsed.
C10_IsOpen ==
    pc = "asked" =>
        LET parsed == response.kind \in {"object", "other"}
            hasOpen == /\ response.kind = "object"
                       /\ "state" \in DOMAIN response.fields
                       /\ response.fields["state"] = [kind |-> "string", text |-> "open"]
        IN  /\ (status = "open" <=> (parsed /\ hasOpen))
            /\ (parsed /\ ~hasOpen => status = "closed")

\* A body whose field state is not a string was answered with false.
C10_Witness ==
    /\ pc = "asked"
    /\ response.kind = "object"
    /\ "state" \in DOMAIN response.fields
    /\ response.fields["state"].kind # "string"
    /\ status = "closed"

\* The child has the four fields with the types a post needs.
HasAll(c) ==
    /\ \A f \in {"id", "title", "selftext"} : c[f].kind = "string"
    /\ c.score.kind = "number"

\* The number of children with the four fields among the first j of cs.
Rank(cs, j) == Cardinality({ i \in 1..j : HasAll(cs[i]) })

\* C11: load_newest_reddit_posts returns, in the listing's order, exactly the
\* children that have a string id, a string title, a string selftext and a
\* numeric score: the k-th post carries the texts of the k-th such child, and
\* there are as many posts as such children. A body without children, or
\* whose children are all skipped, gives an empty result, not an error.
C11_Candidates ==
    (pc = "selected" /\ response.kind = "json") =>
        LET cs == response.items
        IN  /\ fetched = "ok"
            /\ Len(posts) = Rank(cs, Len(cs))
            /\ \A j \in 1..Len(cs) :
                  HasAll(cs[j]) =>
                      /\ posts[Rank(cs, j)].id = cs[j].id.s
                      /\ posts[Rank(cs, j)].title = cs[j].title.s
                      /\ posts[Rank(cs, j)].selftext = cs[j].selftext.s

\* A listing of a child without a score and a well-formed child gave the one
\* post of the second.
C11_Witness ==
    /\ pc = "selected"
    /\ response.kind = "json"
    /\ Len(response.items) = 2
    /\ response.items[1].score.kind = "missing"
    /\ HasAll(response.items[2])
    /\ Len(posts) = 1
    /\ posts[1].id = response.items[2].id.s

\* C12: speech is asked for only after the post's id was pushed and the
\* whole file rewritten; so when the speech request or the decoder fails,
\* the post is not played or painted in that iteration, its id is in
\* used_jokes (every later iteration skips it) and a process that loads the
\* file afterwards finds the id in it.
C12_MarkBeforeSynthesize ==
    [][ Selects =>
          /\ (synthesized' # synthesized =>
                /\ IsPrefix(<<"push", "persist">>, events')
                /\ SelectedId \in Range(used_jokes')
                /\ file' = FileOf(FileBytes(used_jokes')))
          /\ (result' \in {Err("Could not synthesize speech"),
                           Err("Could not create decoder")} =>
                /\ Range(events') \cap {"play", "paint"} = {}
                /\ SelectedId \in Range(used_jokes')
                /\ SelectedId \in Held(file')) ]_vars

PersistErrors ==
    {Err("Could not open USED_IDS_FILE for writing"), Err("Could not save USER_IDS_FILE")}

\* C13: when File::create or a write fails while a new post is announced,
\* the id is in used_jokes all the same, the iteration ends with an error
\* that is logged, no speech is asked for and nothing is played or painted,
\* the loop goes on to its sleep; and an iteration that selects a post this
\* process pushed before, whatever became of the file, does nothing.
C13_PersistFailure ==
    [][ /\ (Selects /\ result' \in PersistErrors) =>
              /\ used_jokes' = Append(used_jokes, SelectedId)
              /\ events' = <<"push">>
              /\ synthesized' = synthesized
              /\ playing' = playing
              /\ logged'
              /\ pc' = "sleep"
        /\ (Selects /\ SelectedId \in Range(pushed)) =>
              /\ result' = Ok
              /\ events' = <<>>
              /\ synthesized' = synthesized
              /\ used_jokes' = used_jokes
              /\ file' = file ]_vars

\* File::create failed for a post, and a later iteration of the same process
\* selected the post again and left it alone.
C13_Witness ==
    /\ pc = "sleep"
    /\ highest > 0
    /\ posts[highest].id \in Range(pushed)
    /\ posts[highest].id \notin Range(synthesized)
    /\ ~file.exists
    /\ events = <<>>
    /\ result = Ok

\* C14: an iteration whose status check says closed returns Ok, nothing is
\* logged as an error, no posts are requested (REDDIT_URL is not even read),
\* used_jokes and the file stay as they are, and nothing is synthesized,
\* played or painted; the loop goes on to its sleep.
C14_ClosedSpace ==
    [][ (pc = "loop" /\ status' = "closed") =>
          /\ result' = Ok
          /\ ~logged'
          /\ pc' = "sleep"
          /\ fetched' = "none"
          /\ posts' = <<>>
          /\ highest' = 0
          /\ events' = <<>>
          /\ used_jokes' = used_jokes
          /\ file' = file
          /\ pushed' = pushed
          /\ synthesized' = synthesized
          /\ playing' = playing ]_vars

\* The space was closed in an iteration after one that announced a post.
C14_Witness ==
    /\ pc = "sleep"
    /\ status = "closed"
    /\ result = Ok
    /\ used_jokes # <<>>
    /\ file.exists

\* C15: when the space is open and the request for posts succeeds without a
\* single post, the iteration ends with the error "Did not find a single
\* post", which the loop logs before it sleeps; used_jokes and the file are
\* unchanged and no speech is asked for, nothing played or painted.
C15_EmptyListing ==
    [][ (pc = "loop" /\ status' = "open" /\ fetched' = "ok" /\ posts' = <<>>) =>
          /\ result' = Err("Did not find a single post")
          /\ logged'
          /\ pc' = "sleep"
          /\ highest' = 0
          /\ events' = <<>>
          /\ used_jokes' = used_jokes
          /\ file' = file
          /\ pushed' = pushed
          /\ synthesized' = synthesized
          /\ playing' = playing ]_vars

\* An iteration of a process that had announced a post found no post.
C15_Witness ==
    /\ pc = "sleep"
    /\ status = "open"
    /\ fetched = "ok"
    /\ posts = <<>>
    /\ result = Err("Did not find a single post")
    /\ logged
    /\ used_jokes # <<>>

\* C16: on a terminal of any size, when no terminal call fails, the painting
\* completes, the title is written at column (width - length) / 2 of row
\* height / 2 - 1, and line i of the selftext (counted from 0) at column
\* (width - length) / 2 of row height / 2 + 1 + i; a text wider than the
\* terminal does not make the computation underflow or fail.
C16_Centering ==
    (pc = "painted" /\ term.fail = 0) =>
        LET post == posts[highest]
            lines == post.selftext
        IN  /\ result = Ok
            /\ Len(term.at) = 1 + Len(lines)
            /\ term.at[1] = <<(term.width - post.title) \div 2, term.height \div 2 - 1>>
            /\ \A i \in 1..Len(lines) :
                  term.at[i + 1] = <<(term.width - lines[i]) \div 2,
                                     term.height \div 2 + 1 + (i - 1)>>

\* A step is one pass through the body of the loop.
IterationStep == pc = "loop" /\ (result' # result \/ status' # status)

\* C17: an iteration starts only where the loop is about to call run, one at
\* a time; when run returned, with Ok (having announced a post or not) or
\* with an error, the loop is at its sleep; and the sleep is left only by
\* having slept 30 seconds, to the start of the next iteration (or by the
\* process being stopped).
C17_SleepBetweenIterations ==
    [][ /\ (status' # "none" /\ status' # status) => pc = "loop"
        /\ (IterationStep /\ result'.kind \in {"ok", "err"}) =>
              (pc' = "sleep" /\ slept' = 0)
        /\ (pc = "sleep" /\ pc' \notin {"sleep", "boot"}) =>
              (pc' = "loop" /\ slept' = SleepSecs /\ status' = "none")
        /\ (pc' = "loop" /\ pc # "loop") =>
              (pc = "boot" \/ (pc = "sleep" /\ slept' = SleepSecs)) ]_vars

\* The loop slept after an iteration that ended in an error, and is about to
\* start the next iteration.
C17_Witness ==
    /\ pc = "loop"
    /\ slept = SleepSecs
    /\ pushed # <<>>
    /\ synthesized = <<>>

\* C18: play_raw does not wait for the sound: when an iteration that played
\* a post has returned, painted or not, its sound is still playing, next to
\* those of earlier iterations; and the end of a sound, whenever it comes,
\* in the sleep or between iterations, changes neither used_jokes nor the
\* file nor anything else of the loop.
C18_PlaybackDetached ==
    [][ /\ (IterationStep /\ "play" \in Range(events') /\ ~IsPanic(result')) =>
              playing' = playing + 1
        /\ (IterationStep /\ "play" \notin Range(events') /\ ~IsPanic(result')) =>
              playing' = playing
        /\ (playing' < playing /\ pc' = pc) =>
              /\ playing' = playing - 1
              /\ UNCHANGED <<used_jokes, file, pc, status, posts, highest, events,
                             result, logged, pushed, synthesized, slept, kept>> ]_vars

\* An iteration played and painted a second post, and slept, while the sound
\* of the first was still playing.
C18_Witness ==
    /\ pc = "loop"
    /\ slept = SleepSecs
    /\ playing = 2
    /\ Len(synthesized) = 2
    /\ file = FileOf(FileBytes(used_jokes))

\* C19: after each iteration, every id the file held when the process
\* started, and every id it held after a rewrite of this process that
\* succeeded, is still in the file.
C19_NoLoss ==
    pc \in {"sleep", "loop"} => kept \subseteq Held(file)

\* A number that is not an i64: it has a fraction, or lies above i64::MAX.
NotI64(num) == num.n = "Float" \/ (num.n = "PosInt" /\ num.over)

\* C20: a child with the three strings whose score is a number that is not
\* an i64 is not skipped: it is a post, with score 0, and the selection
\* treats it as any post of score 0: the selected post's score is at least
\* 0, and more than 0 when the selected post stands before it in the listing.
C20_ScoreNotI64 ==
    (pc = "selected" /\ response.kind = "json") =>
        LET cs == response.items
        IN  \A j \in 1..Len(cs) :
               (HasAll(cs[j]) /\ NotI64(cs[j].score.num)) =>
                   LET k == Rank(cs, j)
                   IN  /\ k <= Len(posts)
                       /\ posts[k].id = cs[j].id.s
                       /\ posts[k].score = 0
                       /\ highest > 0
                       /\ posts[highest].score >= 0
                       /\ (highest < k => posts[highest].score > 0)

\* A child with a fractional score was selected, as the post of score 0 it
\* became, over a post of score -1 that came after it.
C20_Witness ==
    /\ pc = "selected"
    /\ response.kind = "json"
    /\ Len(response.items) = 2
    /\ HasAll(response.items[1])
    /\ response.items[1].score.num.n = "Float"
    /\ Len(posts) = 2
    /\ posts[2].score = -1
    /\ highest = 1
====
